---- MODULE Spec2Model ----
(***************************************************************************)
(* Model of src/Python/strategy.py: four sorting strategies (SelectionSort,*)
(* HeapSort, QuickSort, MergeSort) and the Sorter context that holds one   *)
(* strategy and an optional data buffer.                                   *)
(*                                                                         *)
(* Two state machines share the definitions of the algorithms:             *)
(*   Spec     the Sorter object: constructor, strategy setter, sort();     *)
(*   RunSpec  one call of sorting_algorithm executed statement by          *)
(*            statement with an explicit call stack (RunFair adds the      *)
(*            fairness of a running interpreter).                          *)
(***************************************************************************)
EXTENDS Integers, Sequences, FiniteSets, TLC

VARIABLES strategy, data, arg, result, op, sortedBy, again, stack, last

vars == <<strategy, data, arg, result, op, sortedBy, again, stack, last>>

\* Bounds of the model.
MaxLen == 4     \* longest input of a stepwise run (RunSpec)
MaxFairLen == 3 \* longest input of a stepwise run checked for termination (RunFair)
MaxData == 3    \* longest sequence handed to Sorter's constructor (Spec)
MaxArg == 2     \* longest sequence handed to Sorter.sort (Spec)
MaxVal == 2     \* integers 0..MaxVal

(***************************************************************************)
(* Values.  A number keeps its representation: the int 0 and the float 0.0 *)
(* compare equal in Python but are different objects.                      *)
(***************************************************************************)
IntNum(n) == [v |-> n, k |-> "int"]
FloatNum(n) == [v |-> n, k |-> "float"]
Number == {IntNum(n) : n \in 0..MaxVal} \cup {FloatNum(0)}

SeqsUpTo(n) == UNION {[1..m -> Number] : m \in 0..n}

\* Python objects a Sorter can hold or return: None, a sequence, or a raised TypeError.
None == [tag |-> "None", items |-> <<>>]
List(s) == [tag |-> "list", items |-> s]
TypeError == [tag |-> "TypeError", items |-> <<>>]

\* x < y and x == y on numbers (numeric comparison, representation ignored).
Lt(x, y) == x.v < y.v
Eq(x, y) == x.v = y.v

\* bool(data): None and the empty sequence are falsy.
Truthy(d) == d.tag = "list" /\ Len(d.items) > 0

\* list == list: same length, elements pairwise ==.
SeqEq(s, t) == Len(s) = Len(t) /\ \A i \in 1..Len(s) : Eq(s[i], t[i])

(***************************************************************************)
(* SelectionSort                                                           *)
(***************************************************************************)
\* min(data): the first element that no other element is less than.
RECURSIVE MinFrom(_, _, _)
MinFrom(s, i, best) ==
    IF i > Len(s) THEN best
    ELSE MinFrom(s, i + 1, IF Lt(s[i], best) THEN s[i] ELSE best)

min(s) == MinFrom(s, 2, s[1])

\* data.index(x): position of the first element == x.
index(s, x) == CHOOSE i \in 1..Len(s) : Eq(s[i], x) /\ \A j \in 1..(i - 1) : ~Eq(s[j], x)

\* data.pop(i): the sequence without position i.
pop(s, i) == SubSeq(s, 1, i - 1) \o SubSeq(s, i + 1, Len(s))

\* Faulty variant: every occurrence of the minimum is removed at once.
SelectionBodyDropAll(d, r) ==
    LET pivot_number == min(d)
    IN [data |-> SelectSeq(d, LAMBDA x : ~Eq(x, pivot_number)),
        result |-> Append(r, pivot_number)]

\* One iteration of the while loop: locals (data, result) after the body.
SelectionBody(d, r) ==
    LET pivot_number == min(d)
    IN [data |-> pop(d, index(d, pivot_number)), result |-> Append(r, pivot_number)]

\* while data: ... ; return result  (loc: the locals data, result)
RECURSIVE SelectionLoop(_)
SelectionLoop(loc) ==
    IF loc.data = <<>> THEN loc.result
    ELSE SelectionLoop(SelectionBody(loc.data, loc.result))

SelectionSort(s) == SelectionLoop([data |-> s, result |-> <<>>])

(***************************************************************************)
(* HeapSort: heapq.heapify on a copy (CPython's heapq, 0-based positions   *)
(* kept; position p of the Python list is element p + 1 here).             *)
(***************************************************************************)
Put(h, pos, x) == [h EXCEPT ![pos + 1] = x]

\* _siftdown(heap, startpos, pos) with newitem already taken out of heap[pos].
RECURSIVE SiftDownLoop(_, _, _, _)
SiftDownLoop(h, startpos, pos, newitem) ==
    IF pos > startpos
    THEN LET parentpos == (pos - 1) \div 2
             parent == h[parentpos + 1]
         IN IF Lt(newitem, parent)
            THEN SiftDownLoop(Put(h, pos, parent), startpos, parentpos, newitem)
            ELSE Put(h, pos, newitem)
    ELSE Put(h, pos, newitem)

siftdown(h, startpos, pos) == SiftDownLoop(h, startpos, pos, h[pos + 1])

\* The while loop of _siftup: bubble the smaller child up until a leaf.
RECURSIVE SiftUpLoop(_, _, _, _)
SiftUpLoop(h, startpos, pos, newitem) ==
    LET endpos == Len(h)
        left == 2 * pos + 1
        rightpos == left + 1
        childpos == IF rightpos < endpos /\ ~Lt(h[left + 1], h[rightpos + 1])
                    THEN rightpos ELSE left
    IN IF left < endpos
       THEN SiftUpLoop(Put(h, pos, h[childpos + 1]), startpos, childpos, newitem)
       ELSE siftdown(Put(h, pos, newitem), startpos, pos)

siftup(h, pos) == SiftUpLoop(h, pos, pos, h[pos + 1])

\* for i in reversed(range(n // 2)): _siftup(x, i)
RECURSIVE HeapifyFrom(_, _)
HeapifyFrom(h, i) == IF i < 0 THEN h ELSE HeapifyFrom(siftup(h, i), i - 1)

\* Faulty variant: range(n // 2 - 1), the last parent is never sifted.
heapifyShort(h) == HeapifyFrom(h, (Len(h) \div 2) - 2)

heapify(h) == HeapifyFrom(h, (Len(h) \div 2) - 1)

HeapSort(s) == heapify(s)

(***************************************************************************)
(* QuickSort                                                               *)
(***************************************************************************)
QuickPivot(s) == s[(Len(s) \div 2) + 1]
\* Faulty variant: "number <= pivot", the pivot stays in the left group.
QuickLeftLe(s) == SelectSeq(s, LAMBDA number : ~Lt(QuickPivot(s), number))
QuickLeft(s) == SelectSeq(s, LAMBDA number : Lt(number, QuickPivot(s)))
\* Faulty variant: "mid = [pivot]", duplicates of the pivot are lost.
QuickMidOnlyPivot(s) == <<QuickPivot(s)>>
QuickMid(s) == SelectSeq(s, LAMBDA number : Eq(number, QuickPivot(s)))
QuickRight(s) == SelectSeq(s, LAMBDA number : Lt(QuickPivot(s), number))

RECURSIVE QuickSort(_)
QuickSort(s) ==
    IF Len(s) <= 1 THEN s
    ELSE QuickSort(QuickLeft(s)) \o QuickMid(s) \o QuickSort(QuickRight(s))

(***************************************************************************)
(* MergeSort                                                               *)
(***************************************************************************)
\* Faulty variants: "x > y" and "x <= y".
orderGt(x, y) == Lt(y, x)
orderLe(x, y) == ~Lt(y, x)

\* order = lambda x, y: x < y
order(x, y) == Lt(x, y)

\* Loop condition of merge.
MergeBoth(l, r, il, ir) == il < Len(l) /\ ir < Len(r)

\* One iteration of the while loop of merge (index_left, index_right 0-based).
MergeBody(l, r, il, ir, res) ==
    IF order(l[il + 1], r[ir + 1])
    THEN [il |-> il + 1, ir |-> ir, result |-> Append(res, l[il + 1]), took |-> "left"]
    ELSE [il |-> il, ir |-> ir + 1, result |-> Append(res, r[ir + 1]), took |-> "right"]

\* result.extend(left[index_left:]); result.extend(right[index_right:])
MergeExtend(l, r, il, ir, res) ==
    res \o SubSeq(l, il + 1, Len(l)) \o SubSeq(r, ir + 1, Len(r))

\* The while loop and the two extends (loc: index_left, index_right, result).
RECURSIVE MergeLoop(_, _, _)
MergeLoop(l, r, loc) ==
    IF MergeBoth(l, r, loc.il, loc.ir)
    THEN MergeLoop(l, r, MergeBody(l, r, loc.il, loc.ir, loc.result))
    ELSE MergeExtend(l, r, loc.il, loc.ir, loc.result)

merge(l, r) == MergeLoop(l, r, [il |-> 0, ir |-> 0, result |-> <<>>, took |-> "none"])

MergeMiddle(s) == Len(s) \div 2
MergeLeftHalf(s) == SubSeq(s, 1, MergeMiddle(s))
MergeRightHalf(s) == SubSeq(s, MergeMiddle(s) + 1, Len(s))

RECURSIVE MergeSort(_)
MergeSort(s) ==
    IF Len(s) <= 1 THEN s
    ELSE merge(MergeSort(MergeLeftHalf(s)), MergeSort(MergeRightHalf(s)))

(***************************************************************************)
(* The strategies as objects: strategy.sorting_algorithm(d).  Every        *)
(* strategy starts with list(data) or len(data), which raises TypeError    *)
(* on None.                                                                *)
(***************************************************************************)
Strategies == {"SelectionSort", "HeapSort", "QuickSort", "MergeSort"}

Apply(st, s) ==
    CASE st = "SelectionSort" -> SelectionSort(s)
      [] st = "HeapSort" -> HeapSort(s)
      [] st = "QuickSort" -> QuickSort(s)
      [] st = "MergeSort" -> MergeSort(s)

\* Faulty variant: "data or []", None is sorted as the empty sequence.
sorting_algorithmOrEmpty(st, d) == List(Apply(st, d.items))

sorting_algorithm(st, d) ==
    IF d.tag = "None" THEN TypeError ELSE List(Apply(st, d.items))

(***************************************************************************)
(* Sorter: the context object.                                             *)
(*   strategy  self._strategy                                              *)
(*   data      self._data (None until supplied)                            *)
(*   arg       argument of the last sort call (None when omitted)          *)
(*   result    outcome of the last sort call: the returned list, or the    *)
(*             TypeError it raised; None before any call                   *)
(*   op        last operation on the object                                *)
(*   sortedBy  strategy of the last sort call that returned                *)
(*   again     the last sort call re-sorted, without an argument, data     *)
(*             that a sort call had stored                                 *)
(***************************************************************************)
Datas == {None} \cup {List(s) : s \in SeqsUpTo(MaxData)}
Args == {None} \cup {List(s) : s \in SeqsUpTo(MaxArg)}

\* Sorter(strategy=SelectionSort(), data=None)
SorterInit ==
    /\ strategy \in Strategies
    /\ data \in Datas
    /\ arg = None
    /\ result = None
    /\ op = "init"
    /\ sortedBy = "none"
    /\ again = FALSE
    /\ stack = <<>>
    /\ last = "idle"

\* Faulty variant: the setter also forgets the stored data.
strategy_setterReset(s) ==
    /\ strategy' = s
    /\ data' = None
    /\ op' = "set"
    /\ UNCHANGED <<arg, result, sortedBy, again, stack, last>>

\* sorter.strategy = s
strategy_setter(s) ==
    /\ strategy' = s
    /\ op' = "set"
    /\ UNCHANGED <<data, arg, result, sortedBy, again, stack, last>>

\* Faulty variant: "if data is not None", an empty argument replaces the buffer.
StoredNotNone(d, old) == IF d.tag = "list" THEN d ELSE old

\* The buffer the strategy is applied to: "if data: self._data = data".
Stored(d, old) == IF Truthy(d) THEN d ELSE old

\* sorter.sort(d).  When the strategy raises, the assignment of line 87 is
\* not reached and self._data keeps what line 85 left in it.
sort(d) ==
    \E r \in {sorting_algorithm(strategy, Stored(d, data))} :
       /\ arg' = d
       /\ result' = r
       /\ data' = IF r.tag = "TypeError" THEN Stored(d, data) ELSE r
       /\ sortedBy' = IF r.tag = "TypeError" THEN sortedBy ELSE strategy
       /\ again' = (r.tag = "list" /\ ~Truthy(d) /\ sortedBy # "none")
       /\ op' = "sort"
       /\ UNCHANGED <<strategy, stack, last>>

SetStrategy == \E s \in Strategies : strategy_setter(s)
Sort == \E d \in Args : sort(d)

Next == SetStrategy \/ Sort

Spec == SorterInit /\ [][Next]_vars

(***************************************************************************)
(* One call strategy.sorting_algorithm(arg), statement by statement.       *)
(*   stack   the call stack; a frame holds the locals of one call of       *)
(*           sorting_algorithm (and of merge once it is entered)           *)
(*   last    the kind of the last step                                     *)
(*   result  None while running, then the returned list                    *)
(***************************************************************************)
\* No call of the model nests deeper than this (the guard of Call never blocks).
MaxDepth == MaxLen + 2

Frame(fn, s) ==
    [fn |-> fn, pc |-> "start", data |-> s, left |-> <<>>, mid |-> <<>>,
     right |-> <<>>, il |-> 0, ir |-> 0, result |-> <<>>]

Top == stack[Len(stack)]

\* strategy.sorting_algorithm(arg) has just been called, arg of length <= n.
RunInitUpTo(n) ==
    /\ strategy \in Strategies
    /\ arg \in {List(s) : s \in SeqsUpTo(n)}
    /\ stack = <<Frame(strategy, arg.items)>>
    /\ last = "call"
    /\ result = None
    /\ data = None
    /\ op = "run"
    /\ sortedBy = "none"
    /\ again = FALSE

RunInit == RunInitUpTo(MaxLen)
RunFairInit == RunInitUpTo(MaxFairLen)

\* The caller's frame once the call it waits for has returned value.
Deliver(caller, value) ==
    IF caller.pc = "left"
    THEN [caller EXCEPT !.left = value, !.pc = "gotleft"]
    ELSE [caller EXCEPT !.right = value, !.pc = "gotright"]

\* return value: pop the frame and hand the value to the caller.
Return(value) ==
    /\ stack' = IF Len(stack) = 1 THEN <<>>
                ELSE [SubSeq(stack, 1, Len(stack) - 1)
                        EXCEPT ![Len(stack) - 1] = Deliver(stack[Len(stack) - 1], value)]
    /\ result' = IF Len(stack) = 1 THEN List(value) ELSE result
    /\ last' = "return"
    /\ UNCHANGED <<strategy, data, arg, op, sortedBy, again>>

\* self.sorting_algorithm(s) from the top frame, whose locals become frame.
Call(frame, s) ==
    /\ Len(stack) < MaxDepth
    /\ stack' = Append([stack EXCEPT ![Len(stack)] = frame], Frame(frame.fn, s))
    /\ last' = "call"
    /\ UNCHANGED <<strategy, data, arg, result, op, sortedBy, again>>

\* A step inside the top frame.
Local(frame, label) ==
    /\ stack' = [stack EXCEPT ![Len(stack)] = frame]
    /\ last' = label
    /\ UNCHANGED <<strategy, data, arg, result, op, sortedBy, again>>

Running(fn) == stack # <<>> /\ Top.fn = fn

SelectionIter ==
    /\ Running("SelectionSort")
    /\ Top.data # <<>>
    /\ \E n \in {SelectionBody(Top.data, Top.result)} :
          Local([Top EXCEPT !.data = n.data, !.result = n.result], "selection_iter")

SelectionReturn ==
    /\ Running("SelectionSort")
    /\ Top.data = <<>>
    /\ Return(Top.result)

HeapRun ==
    /\ Running("HeapSort")
    /\ Return(heapify(Top.data))

QuickBase ==
    /\ Running("QuickSort")
    /\ Top.pc = "start"
    /\ Len(Top.data) <= 1
    /\ Return(Top.data)

QuickPartition ==
    /\ Running("QuickSort")
    /\ Top.pc = "start"
    /\ Len(Top.data) > 1
    /\ Call([Top EXCEPT !.left = QuickLeft(Top.data), !.mid = QuickMid(Top.data),
                        !.right = QuickRight(Top.data), !.pc = "left"],
            QuickLeft(Top.data))

QuickCallRight ==
    /\ Running("QuickSort")
    /\ Top.pc = "gotleft"
    /\ Call([Top EXCEPT !.pc = "right"], Top.right)

QuickConcat ==
    /\ Running("QuickSort")
    /\ Top.pc = "gotright"
    /\ Return(Top.left \o Top.mid \o Top.right)

MergeBase ==
    /\ Running("MergeSort")
    /\ Top.pc = "start"
    /\ Len(Top.data) <= 1
    /\ Return(Top.data)

MergeSplit ==
    /\ Running("MergeSort")
    /\ Top.pc = "start"
    /\ Len(Top.data) > 1
    /\ Call([Top EXCEPT !.left = MergeLeftHalf(Top.data),
                        !.right = MergeRightHalf(Top.data), !.pc = "left"],
            MergeLeftHalf(Top.data))

MergeCallRight ==
    /\ Running("MergeSort")
    /\ Top.pc = "gotleft"
    /\ Call([Top EXCEPT !.pc = "right"], Top.right)

\* self.merge(left, right): result = [], index_left = index_right = 0
MergeEnter ==
    /\ Running("MergeSort")
    /\ Top.pc = "gotright"
    /\ Local([Top EXCEPT !.pc = "merge", !.il = 0, !.ir = 0, !.result = <<>>], "merge_enter")

MergeIter ==
    /\ Running("MergeSort")
    /\ Top.pc = "merge"
    /\ MergeBoth(Top.left, Top.right, Top.il, Top.ir)
    /\ \E n \in {MergeBody(Top.left, Top.right, Top.il, Top.ir, Top.result)} :
          Local([Top EXCEPT !.il = n.il, !.ir = n.ir, !.result = n.result],
                IF n.took = "left" THEN "merge_left" ELSE "merge_right")

MergeReturn ==
    /\ Running("MergeSort")
    /\ Top.pc = "merge"
    /\ ~MergeBoth(Top.left, Top.right, Top.il, Top.ir)
    /\ Return(MergeExtend(Top.left, Top.right, Top.il, Top.ir, Top.result))

RunNext ==
    \/ SelectionIter
    \/ SelectionReturn
    \/ HeapRun
    \/ QuickBase
    \/ QuickPartition
    \/ QuickCallRight
    \/ QuickConcat
    \/ MergeBase
    \/ MergeSplit
    \/ MergeCallRight
    \/ MergeEnter
    \/ MergeIter
    \/ MergeReturn

RunSpec == RunInit /\ [][RunNext]_vars

\* The interpreter never stops executing a call that can take a step.
RunFair == RunFairInit /\ [][RunNext]_vars /\ WF_vars(RunNext)

Done == stack = <<>>

\* The stepwise run returns what the strategy's definition computes.
RunAgrees == Done => result = sorting_algorithm(strategy, arg)

(***************************************************************************)
(* Properties                                                              *)
(***************************************************************************)
Count(s, x) == Cardinality({i \in 1..Len(s) : Eq(s[i], x)})

SameMultiset(s, t) == Len(s) = Len(t) /\ \A x \in Number : Count(s, x) = Count(t, x)

NonDecreasing(s) == \A i \in 1..(Len(s) - 1) : ~Lt(s[i + 1], s[i])

\* Element at 0-based position i is <= the elements at 2i+1 and 2i+2.
HeapOrdered(s) ==
    \A i \in 0..(Len(s) - 1) :
        /\ (2 * i + 1 < Len(s) => ~Lt(s[2 * i + 2], s[i + 1]))
        /\ (2 * i + 2 < Len(s) => ~Lt(s[2 * i + 3], s[i + 1]))

Comparing == {"SelectionSort", "QuickSort", "MergeSort"}

\* C1: for each of the four strategies the returned sequence has the length
\* of the input and holds every value as many times as the input does.
C1_Permutation ==
    Done => result.tag = "list" /\ SameMultiset(result.items, arg.items)

C1_Witness ==
    /\ Done
    /\ strategy = "QuickSort"
    /\ Len(arg.items) = 4
    /\ arg.items[1] = arg.items[3]
    /\ result.items # arg.items

\* C2: the result of SelectionSort, QuickSort and MergeSort is in
\* non-decreasing order: no element is less than its predecessor.
C2_Ordered ==
    (Done /\ strategy \in Comparing) => NonDecreasing(result.items)

C2_Witness ==
    /\ Done
    /\ strategy = "MergeSort"
    /\ Len(arg.items) = 4
    /\ Lt(arg.items[4], arg.items[3])
    /\ Lt(arg.items[3], arg.items[1])

\* C3: after a sort call that returned, with any of the four strategies, the
\* stored data is the non-decreasing permutation of the input of that call
\* (the argument when non-empty, the previously stored data otherwise).
C3_StoredIsSortedInput ==
    [][(op' = "sort" /\ result'.tag = "list") =>
          /\ NonDecreasing(data'.items)
          /\ SameMultiset(data'.items, (IF Truthy(arg') THEN arg' ELSE data).items)]_vars

\* C4: the result of HeapSort satisfies the binary min-heap invariant.
C4_HeapOrder ==
    (Done /\ strategy = "HeapSort") => HeapOrdered(result.items)

C4_Witness ==
    /\ Done
    /\ strategy = "HeapSort"
    /\ Len(arg.items) = 4
    /\ ~HeapOrdered(arg.items)
    /\ ~NonDecreasing(result.items)

\* C5: sort(d) applies the held strategy to d when d is supplied and
\* non-empty and to the previously stored data otherwise; what the strategy
\* returns is both stored and returned.
C5_EffectiveInput ==
    [][op' = "sort" =>
          /\ (arg'.tag = "list" /\ Len(arg'.items) > 0) =>
                 /\ result' = List(Apply(strategy, arg'.items))
                 /\ data' = result'
          /\ (~(arg'.tag = "list" /\ Len(arg'.items) > 0) /\ data.tag = "list") =>
                 /\ result' = List(Apply(strategy, data.items))
                 /\ data' = result']_vars

C5_Witness ==
    /\ op = "sort"
    /\ arg = List(<<>>)
    /\ result.tag = "list"
    /\ Len(result.items) = 3
    /\ data = result

\* C6: once data has been sorted by Selection, Quick or Merge, a sort call
\* without argument under any of these three strategies returns and stores
\* a sequence equal (==) to the data already stored.
C6_Idempotent ==
    [][(sortedBy \in Comparing /\ strategy \in Comparing /\ op' = "sort" /\ ~Truthy(arg')) =>
          /\ result'.tag = "list"
          /\ SeqEq(result'.items, data.items)
          /\ SeqEq(data'.items, data.items)]_vars

C6_Witness ==
    /\ again
    /\ op = "sort"
    /\ strategy = "MergeSort"
    /\ sortedBy = "MergeSort"
    /\ Len(data.items) = 3
    /\ Lt(data.items[1], data.items[3])

\* C7: a sort call without argument, or with an empty one, on a Sorter whose
\* data is unset raises for each strategy and leaves data unset and the
\* strategy as it was.
C7_UnsetRaises ==
    [][(data = None /\ op' = "sort" /\ ~Truthy(arg')) =>
          /\ result' = TypeError
          /\ data' = None
          /\ strategy' = strategy]_vars

C7_Witness ==
    /\ op = "sort"
    /\ result = TypeError
    /\ data = None
    /\ arg = List(<<>>)
    /\ strategy = "HeapSort"

\* C8: assigning a strategy leaves the stored data (set or unset) as it was,
\* and a sort call leaves the held strategy as it was.
C8_Frame ==
    [][/\ op' = "set" => data' = data
       /\ op' = "sort" => strategy' = strategy]_vars

C8_Witness ==
    /\ op = "set"
    /\ data.tag = "list"
    /\ Len(data.items) = 3
    /\ sortedBy = "SelectionSort"
    /\ strategy = "QuickSort"

\* An iteration of SelectionSort's loop removes exactly one element.
SelectionShrinks ==
    (Running("SelectionSort") /\ Top.data # <<>>) =>
        /\ stack' # <<>>
        /\ Len(stack'[Len(stack')].data) = Len(Top.data) - 1

\* A recursive call gets a strictly shorter sequence than its caller has.
CallsShrink ==
    Len(stack') > Len(stack) =>
        Len(stack'[Len(stack')].data) < Len(Top.data)

\* C9: every strategy terminates: an iteration of SelectionSort's loop
\* removes exactly one element of the working copy, every recursive call
\* of QuickSort and MergeSort gets a strictly shorter sequence than its
\* caller has (inputs of equal elements included), and every run ends.
C9_Terminates ==
    /\ [][SelectionShrinks /\ CallsShrink]_vars
    /\ <>Done

C9_Witness ==
    /\ Done
    /\ strategy = "QuickSort"
    /\ Len(arg.items) = 3
    /\ \A i \in 1..3 : Eq(arg.items[i], arg.items[1])

\* Both halves non-exhausted in merge and their heads compare equal.
MergeTie ==
    /\ Running("MergeSort")
    /\ Top.pc = "merge"
    /\ MergeBoth(Top.left, Top.right, Top.il, Top.ir)
    /\ Eq(Top.left[Top.il + 1], Top.right[Top.ir + 1])

\* C10 as stated: on a tie in merge the element appended next is the left
\* half's head.
C10_LeftWinsTies ==
    [][MergeTie =>
          /\ stack'[Len(stack')].result = Append(Top.result, Top.left[Top.il + 1])
          /\ stack'[Len(stack')].il = Top.il + 1]_vars

\* C10 amended: on a tie in merge the element appended next is the right
\* half's head (the left head is taken only when strictly less).
C10_RightWinsTies ==
    [][MergeTie =>
          /\ stack'[Len(stack')].result = Append(Top.result, Top.right[Top.ir + 1])
          /\ stack'[Len(stack')].ir = Top.ir + 1
          /\ stack'[Len(stack')].il = Top.il]_vars

C10_Witness ==
    /\ Running("MergeSort")
    /\ Top.pc = "merge"
    /\ last = "merge_right"
    /\ Top.il < Len(Top.left)
    /\ Eq(Top.left[Top.il + 1], Top.right[Top.ir])
    /\ Top.left[Top.il + 1] # Top.right[Top.ir]

====
